---- MODULE Spec2Model ----
(***************************************************************************)
(* Commerce core of aem-productbus-demo: the facade (scripts/commerce/     *)
(* api.js), the event bus (events.js) and the cart stores of the two       *)
(* adapters (adapters/mock.js, adapters/edge.js).                          *)
(*                                                                         *)
(* JavaScript objects are modelled as cells of a heap, so that two         *)
(* references to one object see each other's writes.  A cart returned by   *)
(* buildCart holds references (object ids); JSON text holds values.        *)
(***************************************************************************)
EXTENDS Integers, Sequences, FiniteSets, Bags, TLC

VARIABLES
  override,   \* localStorage['commerce-adapter'] ("" when absent)
  imports,    \* the dynamic imports started by loadAdapter, in order
  loading,    \* api.js `loading`: index into imports, 0 for null
  adapter,    \* api.js `adapter`: [kind, id], kind "" for null
  calls,      \* the facade calls in flight (a bag: calls have no identity)
  items,      \* the active adapter module's `items`: object ids in key order
  heap,       \* object id -> line item object
  timers,     \* pending setTimeout(persistNow) timers
  storage,    \* localStorage: key -> raw text
  cookie,     \* document.cookie cart_items_count (-1 when never set)
  listeners,  \* event name -> number of registered callbacks
  log,        \* what the last facade step / dispatch call delivered
  done,       \* outcome of the facade call that completed in the last step
  ret,        \* what the last direct adapter call returned
  hist,       \* history variables of the cart store (not program state)
  token,      \* sessionStorage['auth_token'] ("" when absent)
  user,       \* localStorage['auth_user'] (raw text)
  reqs,       \* the edge adapter's fetch() calls awaiting their response
  reply,      \* outcome of the network-backed adapter call that completed last
  other       \* the memory of the second tab while the first one runs

vars == <<override, imports, loading, adapter, calls, items, heap, timers,
          storage, cookie, listeners, log, done, ret, hist,
          token, user, reqs, reply, other>>

loaderVars == <<override, imports, loading, adapter>>
storeVars  == <<items, heap, timers, storage, cookie>>
busVars    == <<listeners, log, done>>
authVars   == <<token, user, reqs, reply>>
extVars    == <<token, user, reqs, reply, other>>

-----------------------------------------------------------------------------
(* Bounds of the model *)

MaxQty == 2
MaxObjs == 4
MaxListeners == 2
MaxCalls == 2

(* Program constants *)

STORAGE_VERSION == 1
SHIPPING_THRESHOLD == 150
SHIPPING_COST == 10
DEBOUNCE_MS == 300

EDGE_KEY == "cart"
MOCK_KEY == "mock-cart"
ADAPTER == "edge"

-----------------------------------------------------------------------------
(* Inputs *)

SKUs == {"A", "B"}
Price(sku) == IF sku = "A" THEN 75 ELSE 149
AddQtys == 0..2
UpdQtys == -1..2
TimeSteps == {DEBOUNCE_MS \div 3, DEBOUNCE_MS}
Oids == 1..MaxObjs

Item(sku, q) == [sku |-> sku, quantity |-> q, price |-> Price(sku)]

NoObj == [sku |-> "", quantity |-> 0, price |-> 0]
NullElem == [sku |-> "null", quantity |-> 0, price |-> 0]   \* a JSON null in an item list

-----------------------------------------------------------------------------
(* Sequence helpers *)

Range(s) == {s[i] : i \in 1..Len(s)}

RECURSIVE SumSeq(_)
SumSeq(s) == IF s = <<>> THEN 0 ELSE Head(s) + SumSeq(Tail(s))

Without(s, x) == SelectSeq(s, LAMBDA y : y # x)

Min(a, b) == IF a < b THEN a ELSE b

-----------------------------------------------------------------------------
(* The cart store: shared shape of mock.js and edge.js *)

Kind == adapter.kind

\* items[sku]: the object id stored under sku, 0 when the key is absent
Lookup(its, hp, sku) ==
  IF \E i \in 1..Len(its) : hp[its[i]].sku = sku
  THEN its[CHOOSE i \in 1..Len(its) : hp[its[i]].sku = sku]
  ELSE 0

\* Object.values(items).map(deref): the line items as values
Values(its, hp) == [i \in 1..Len(its) |-> hp[its[i]]]

Count(vals) == SumSeq([i \in 1..Len(vals) |-> vals[i].quantity])
Subtotal(vals) == SumSeq([i \in 1..Len(vals) |-> vals[i].quantity * vals[i].price])

\* A seeded fault for the shipping rule: free only above the threshold.
ShippingForStrict(kind, subtotal) ==
  IF kind = "edge"
  THEN (IF subtotal > SHIPPING_THRESHOLD THEN 0 ELSE SHIPPING_COST)
  ELSE 0

ShippingFor(kind, subtotal) ==
  IF kind = "edge"
  THEN (IF subtotal >= SHIPPING_THRESHOLD THEN 0 ELSE SHIPPING_COST)
  ELSE 0

\* buildCart(): `items` is a new array of the SAME objects; the three totals
\* are numbers computed now.
BuildCart(kind, its, hp) ==
  [items    |-> its,
   itemCount |-> Count(Values(its, hp)),
   subtotal |-> Subtotal(Values(its, hp)),
   shipping |-> ShippingFor(kind, Subtotal(Values(its, hp)))]

\* What a holder of cart c reads through it in heap hp.
View(c, hp) ==
  [items |-> Values(c.items, hp), itemCount |-> c.itemCount,
   subtotal |-> c.subtotal, shipping |-> c.shipping]

\* placeholder where no cart is held (a field that is undefined in the code)
NoCart == [items |-> <<>>, itemCount |-> 0 - 1, subtotal |-> 0, shipping |-> 0]

-----------------------------------------------------------------------------
(* Persisted text.  kind: "absent" (getItem gives null), "garbage" (not     *)
(* JSON), "envelope" ({version, items}), "array" ([...items]).             *)

Absent  == [kind |-> "absent",  version |-> 0, items |-> <<>>]
Garbage == [kind |-> "garbage", version |-> 0, items |-> <<>>]
Envelope(v, vals) == [kind |-> "envelope", version |-> v, items |-> vals]
Array(vals) == [kind |-> "array", version |-> 0, items |-> vals]

\* (list).reduce((acc, item) => { acc[item.sku] = item; return acc }, {})
\* reading item.sku of a null element throws a TypeError.
RECURSIVE Reduce(_, _)
Reduce(list, acc) ==
  IF list = <<>> THEN [threw |-> FALSE, acc |-> acc]
  ELSE IF Head(list) = NullElem THEN [threw |-> TRUE, acc |-> acc]
  ELSE LET it == Head(list)
           at == {i \in 1..Len(acc) : acc[i].sku = it.sku}
       IN Reduce(Tail(list),
                 IF at = {} THEN Append(acc, it)
                 ELSE [i \in 1..Len(acc) |-> IF i \in at THEN it ELSE acc[i]])

Loaded(vals, remove) == [items |-> vals, remove |-> remove, raised |-> FALSE]

\* A seeded fault for restore(): the version of the envelope is not checked.
EdgeRestoreAnyVersion(raw) ==
  IF raw.kind = "absent" THEN Loaded(<<>>, FALSE)
  ELSE IF raw.kind = "garbage" THEN Loaded(<<>>, TRUE)
  ELSE IF raw.kind = "array" THEN Loaded(<<>>, TRUE)
  ELSE LET r == Reduce(raw.items, <<>>)
       IN IF r.threw THEN Loaded(<<>>, TRUE) ELSE Loaded(r.acc, FALSE)

\* edge.js restore(): the new `items` (as values) and whether the key is removed
EdgeRestore(raw) ==
  IF raw.kind = "absent" THEN Loaded(<<>>, FALSE)
  ELSE IF raw.kind = "garbage" THEN Loaded(<<>>, TRUE)
  ELSE IF raw.kind = "array" \/ raw.version # STORAGE_VERSION THEN Loaded(<<>>, TRUE)
  ELSE LET r == Reduce(raw.items, <<>>)
       IN IF r.threw THEN Loaded(<<>>, TRUE) ELSE Loaded(r.acc, FALSE)

\* mock.js restore()
MockRestore(raw) ==
  IF raw.kind = "absent" THEN Loaded(<<>>, FALSE)
  ELSE IF raw.kind = "garbage" THEN Loaded(<<>>, TRUE)
  ELSE IF raw.kind = "envelope" THEN Loaded(<<>>, TRUE)
  ELSE LET r == Reduce(raw.items, <<>>)
       IN IF r.threw THEN Loaded(<<>>, TRUE) ELSE Loaded(r.acc, FALSE)

KeyOf(kind) == IF kind = "edge" THEN EDGE_KEY ELSE MOCK_KEY

Restore(kind, raw) == IF kind = "edge" THEN EdgeRestore(raw) ELSE MockRestore(raw)

\* The module's state right after it is evaluated with storage st:
\* JSON.parse builds fresh objects, ids 1..n.
FreshHeap(vals) == [o \in Oids |-> IF o <= Len(vals) THEN vals[o] ELSE NoObj]
FreshItems(vals) == [i \in 1..Len(vals) |-> i]
AfterRestore(kind, st) ==
  IF Restore(kind, st[KeyOf(kind)]).remove
  THEN [st EXCEPT ![KeyOf(kind)] = Absent]
  ELSE st

-----------------------------------------------------------------------------
(* Cart mutations, as functions of (`items`, heap).  Both adapters share   *)
(* addToCart and removeItem; updateItemQuantity differs.                    *)

\* object ids reachable from `items` or from a cart held by a facade call
CallRefs(cs) == UNION {Range(c.cart.items) : c \in BagToSet(cs)}
FreeOids == Oids \ (Range(items) \cup CallRefs(calls))
NewOid == CHOOSE o \in FreeOids : \A p \in FreeOids : o <= p

Outcome(threw, its, hp) == [threw |-> threw, items |-> its, heap |-> hp]

\* A seeded fault for addToCart: the quantity is overwritten instead of added.
AddItemOverwrite(its, hp, item) ==
  LET o == Lookup(its, hp, item.sku)
  IN IF o # 0
     THEN Outcome(FALSE, its, [hp EXCEPT ![o].quantity = item.quantity])
     ELSE Outcome(FALSE, Append(its, NewOid), [hp EXCEPT ![NewOid] = item])

\* addToCart: existing.quantity += item.quantity, else items[sku] = {...item}
AddItem(its, hp, item) ==
  LET o == Lookup(its, hp, item.sku)
  IN IF o # 0
     THEN Outcome(FALSE, its, [hp EXCEPT ![o].quantity = @ + item.quantity])
     ELSE Outcome(FALSE, Append(its, NewOid), [hp EXCEPT ![NewOid] = item])

\* delete items[sku]
DeleteKey(its, hp, sku) == Without(its, Lookup(its, hp, sku))

\* A seeded fault for updateItemQuantity: a quantity of 0 is stored.
EdgeUpdateKeepsZero(its, hp, sku, q) ==
  LET o == Lookup(its, hp, sku)
  IN IF o = 0 THEN Outcome(TRUE, its, hp)
     ELSE IF q < 0 THEN Outcome(FALSE, DeleteKey(its, hp, sku), hp)
     ELSE Outcome(FALSE, its, [hp EXCEPT ![o].quantity = q])

\* edge.js updateItemQuantity
EdgeUpdate(its, hp, sku, q) ==
  LET o == Lookup(its, hp, sku)
  IN IF o = 0 THEN Outcome(TRUE, its, hp)
     ELSE IF q <= 0 THEN Outcome(FALSE, DeleteKey(its, hp, sku), hp)
     ELSE Outcome(FALSE, its, [hp EXCEPT ![o].quantity = q])

\* mock.js updateItemQuantity
MockUpdate(its, hp, sku, q) ==
  LET o == Lookup(its, hp, sku)
  IN IF q <= 0 THEN Outcome(FALSE, DeleteKey(its, hp, sku), hp)
     ELSE IF o # 0 THEN Outcome(FALSE, its, [hp EXCEPT ![o].quantity = q])
     ELSE Outcome(FALSE, its, hp)

UpdateItem(kind, its, hp, sku, q) ==
  IF kind = "edge" THEN EdgeUpdate(its, hp, sku, q) ELSE MockUpdate(its, hp, sku, q)

\* removeItem (both adapters): delete items[sku], never throws
RemoveItem(its, hp, sku) == Outcome(FALSE, DeleteKey(its, hp, sku), hp)

\* clearCart: items = {}
ClearItems(its, hp) == Outcome(FALSE, <<>>, hp)

-----------------------------------------------------------------------------
(* Persistence *)

\* mock.js save(): JSON.stringify(Object.values(items))
MockSave(st, its, hp) == [st EXCEPT ![MOCK_KEY] = Array(Values(its, hp))]

\* edge.js persistNow(): the envelope written to localStorage
EdgeWrite(st, its, hp) ==
  [st EXCEPT ![EDGE_KEY] = Envelope(STORAGE_VERSION, Values(its, hp))]

\* A seeded fault for persistNow(): the cookie counts line items.
CookieCountLines(its, hp) == Len(its)

\* edge.js persistNow(): the count written to the cookie
CookieCount(its, hp) == Count(Values(its, hp))

Timer(cur, left) == [cur |-> cur, left |-> left]

\* clearTimeout(persistTimer): the timer persistTimer names is taken off
ClearTimeout(ts) == SelectSeq(ts, LAMBDA t : ~t.cur)

\* setTimeout(persistNow, 300) assigned to persistTimer
SetTimeout(ts) ==
  Append([i \in 1..Len(ts) |-> Timer(FALSE, ts[i].left)], Timer(TRUE, DEBOUNCE_MS))

\* A seeded fault for persist(): the pending timer is not cancelled.
PersistNoCancel(ts) == SetTimeout(ts)

\* edge.js persist()
Persist(ts) == SetTimeout(ClearTimeout(ts))

\* d ms later
Elapse(ts, d) == [i \in 1..Len(ts) |-> Timer(ts[i].cur, ts[i].left - d)]

TimerDue == \E i \in 1..Len(timers) : timers[i].left = 0

\* heap cells nothing refers to any more are reclaimed
Collect(hp, its, cs) ==
  [o \in Oids |-> IF o \in Range(its) \cup CallRefs(cs) THEN hp[o] ELSE NoObj]

\* a tab is a page of its own: its own module state, the same localStorage
Tab(open, its, hp, ts) == [open |-> open, items |-> its, heap |-> hp, timers |-> ts]
NoTab == Tab(FALSE, <<>>, [o \in Oids |-> NoObj], <<>>)

-----------------------------------------------------------------------------
(* History variables of the cart store (they record, they never decide).   *)
(* ok follows the calls that returned normally and restarted the timer;    *)
(* any also follows the rejected calls that fall inside a burst.  For      *)
(* each: whether a burst is followed, its calls (counted to 2), the time   *)
(* since its last call (saturating at the debounce window), the timer      *)
(* writes since it began and the quiet time the last of them observed.     *)
(* addOn/addSum follow a run of addToCart calls on a cart that was empty.  *)
(* last is the last direct adapter call (hit: its sku was in the cart).    *)
(* boot is the text restore() found, while nothing has been called since.  *)
(* cleared is 1 once clearCart has run and nothing was changed since, 2    *)
(* once a timer has also fired since.                                      *)

NoBurst == [on |-> FALSE, n |-> 0, since |-> DEBOUNCE_MS, writes |-> 0, quiet |-> DEBOUNCE_MS]
NoLast == [op |-> "", sku |-> "", qty |-> 0, hit |-> FALSE]
Last(op, sku, q) ==
  [op |-> op, sku |-> sku, qty |-> q, hit |-> Lookup(items, heap, sku) # 0]

HistInit(empty) ==
  [ok |-> NoBurst, any |-> NoBurst, addOn |-> empty, addSum |-> [s \in SKUs |-> 0],
   last |-> NoLast, boot |-> Absent, fresh |-> FALSE, raised |-> FALSE,
   cleared |-> 0]

\* the history right after restore() ran on raw and loaded r
HistBoot(raw, r) ==
  [HistInit(r.items = <<>>) EXCEPT !.boot = raw, !.fresh = TRUE, !.raised = r.raised]

BurstCall(b) ==
  IF b.on /\ b.since < DEBOUNCE_MS
  THEN [b EXCEPT !.n = Min(@ + 1, 2), !.since = 0]
  ELSE [on |-> TRUE, n |-> 1, since |-> 0, writes |-> 0, quiet |-> DEBOUNCE_MS]

BurstTick(b, d) == [b EXCEPT !.since = Min(@ + d, DEBOUNCE_MS)]

BurstWrite(b) ==
  IF b.on THEN [b EXCEPT !.writes = Min(@ + 1, 2), !.quiet = b.since] ELSE b

Called(h, l) == [h EXCEPT !.last = l, !.boot = Absent, !.fresh = FALSE]

\* a call that returned normally and restarted the timer (edge adapter)
HistMutation(h, kind, l) ==
  IF kind = "edge"
  THEN [Called(h, l) EXCEPT !.ok = BurstCall(@), !.any = BurstCall(@), !.cleared = 0]
  ELSE [Called(h, l) EXCEPT !.cleared = 0]

\* a call that was rejected: it counts for `any` when it falls inside a burst
HistRejected(h, kind, l) ==
  IF kind = "edge" /\ h.any.on /\ h.any.since < DEBOUNCE_MS
  THEN [Called(h, l) EXCEPT !.any = BurstCall(@)]
  ELSE Called(h, l)

HistAdd(h, kind, item, l) ==
  [HistMutation(h, kind, l) EXCEPT
     !.addSum[item.sku] = IF h.addOn THEN @ + item.quantity ELSE @]

HistOther(h, kind, l) ==
  [HistMutation(h, kind, l) EXCEPT !.addOn = FALSE, !.addSum = [s \in SKUs |-> 0]]

-----------------------------------------------------------------------------
(* Session state of the edge adapter *)

NoUser == [kind |-> "absent", email |-> "", roles |-> ""]
NoReply ==
  [op |-> "", outcome |-> "", value |-> "", status |-> 0, events |-> 0,
   got |-> 0 - 1, had |-> FALSE, sent |-> FALSE]

\* nothing of the session or of a second tab exists yet
Signedout ==
  /\ token = ""
  /\ user = NoUser
  /\ reqs = EmptyBag
  /\ reply = NoReply
  /\ other = NoTab

-----------------------------------------------------------------------------
(* Steps of the cart store, shared by the direct adapter calls and by the  *)
(* facade.  An adapter method has no await in its body, so it runs to      *)
(* completion within the caller's step.  Timer callbacks run when due: no  *)
(* call overtakes a due timer.                                             *)

Loaded_ == Kind # "" /\ ~TimerDue

\* persist() (edge) or save() (mock) after a mutation that gave r
Commit(r) ==
  /\ items' = r.items
  /\ IF Kind = "edge"
     THEN /\ timers' = Persist(timers)
          /\ UNCHANGED <<storage, cookie>>
     ELSE /\ storage' = MockSave(storage, r.items, r.heap)
          /\ UNCHANGED <<timers, cookie>>

\* A seeded fault for clearCart: the write is left to the debounce timer.
CommitDebounced(r) == Commit(r)

\* persistNow() (edge) or save() (mock) inside clearCart
CommitNow(r) ==
  /\ items' = r.items
  /\ IF Kind = "edge"
     THEN /\ storage' = EdgeWrite(storage, r.items, r.heap)
          /\ cookie' = CookieCount(r.items, r.heap)
          /\ UNCHANGED timers
     ELSE /\ storage' = MockSave(storage, r.items, r.heap)
          /\ UNCHANGED <<timers, cookie>>

CanAdd(sku, q) ==
  LET o == Lookup(items, heap, sku)
  IN IF o = 0 THEN FreeOids # {} ELSE heap[o].quantity + q <= MaxQty

Returned(c, hp) == [kind |-> "cart", view |-> View(c, hp)]
ReturnedVoid == [kind |-> "void", view |-> NoCart]
Threw == [kind |-> "error", view |-> NoCart]
NoReturn == [kind |-> "none", view |-> NoCart]

-----------------------------------------------------------------------------
(* Direct adapter calls *)

AdapterAddToCart(sku, q) ==
  /\ UNCHANGED extVars
  /\ Loaded_ /\ CanAdd(sku, q)
  /\ LET r == AddItem(items, heap, Item(sku, q))
     IN /\ Commit(r)
        /\ ret' = Returned(BuildCart(Kind, r.items, r.heap), r.heap)
        /\ heap' = Collect(r.heap, r.items, calls)
  /\ hist' = HistAdd(hist, Kind, Item(sku, q), Last("addToCart", sku, q))
  /\ UNCHANGED <<loaderVars, calls, busVars>>

AdapterGetCart ==
  /\ UNCHANGED extVars
  /\ Loaded_
  /\ ret' = Returned(BuildCart(Kind, items, heap), heap)
  /\ hist' = [hist EXCEPT !.last = Last("getCart", "", 0)]
  /\ UNCHANGED <<loaderVars, calls, busVars, storeVars>>

AdapterUpdateItemQuantity(sku, q) ==
  /\ UNCHANGED extVars
  /\ Loaded_
  /\ LET r == UpdateItem(Kind, items, heap, sku, q)
     IN IF r.threw
        THEN /\ ret' = Threw
             /\ hist' = HistRejected(hist, Kind, Last("updateItemQuantity", sku, q))
             /\ UNCHANGED storeVars
        ELSE /\ Commit(r)
             /\ ret' = Returned(BuildCart(Kind, r.items, r.heap), r.heap)
             /\ heap' = Collect(r.heap, r.items, calls)
             /\ hist' = HistOther(hist, Kind, Last("updateItemQuantity", sku, q))
  /\ UNCHANGED <<loaderVars, calls, busVars>>

AdapterRemoveItem(sku) ==
  /\ UNCHANGED extVars
  /\ Loaded_
  /\ LET r == RemoveItem(items, heap, sku)
     IN /\ Commit(r)
        /\ ret' = Returned(BuildCart(Kind, r.items, r.heap), r.heap)
        /\ heap' = Collect(r.heap, r.items, calls)
  /\ hist' = HistOther(hist, Kind, Last("removeItem", sku, 0))
  /\ UNCHANGED <<loaderVars, calls, busVars>>

AdapterClearCart ==
  /\ UNCHANGED extVars
  /\ Loaded_
  /\ LET r == ClearItems(items, heap)
     IN /\ CommitNow(r)
        /\ heap' = Collect(r.heap, r.items, calls)
  /\ ret' = ReturnedVoid
  /\ hist' = [HistInit(TRUE) EXCEPT !.last = Last("clearCart", "", 0), !.cleared = 1]
  /\ UNCHANGED <<loaderVars, calls, busVars>>

\* The page is reloaded and the adapter module imported again: memory and
\* timers are gone, restore() runs on what localStorage holds.
AdapterReload ==
  /\ UNCHANGED extVars
  /\ Kind # ""
  /\ LET raw == storage[KeyOf(Kind)]
         r == Restore(Kind, raw)
     IN /\ items' = FreshItems(r.items)
        /\ heap' = FreshHeap(r.items)
        /\ storage' = AfterRestore(Kind, storage)
        /\ hist' = HistBoot(raw, r)
  /\ timers' = <<>>
  /\ ret' = NoReturn
  /\ UNCHANGED <<loaderVars, calls, cookie, busVars>>

-----------------------------------------------------------------------------
(* Time and the debounce timer *)

\* d ms pass; no pending timer is overshot
Tick(d) ==
  /\ UNCHANGED authVars
  /\ \A i \in 1..Len(timers) : timers[i].left >= d
  /\ \A i \in 1..Len(other.timers) : other.timers[i].left >= d
  /\ timers' = Elapse(timers, d)
  /\ other' = [other EXCEPT !.timers = Elapse(@, d)]
  /\ hist' = [hist EXCEPT !.ok = BurstTick(@, d), !.any = BurstTick(@, d), !.last = NoLast]
  /\ ret' = NoReturn
  /\ UNCHANGED <<loaderVars, calls, busVars, items, heap, storage, cookie>>

\* the timer callback: persistNow()
TimerFire ==
  /\ UNCHANGED extVars
  /\ \E i \in 1..Len(timers) :
       /\ timers[i].left = 0
       /\ timers' = [j \in 1..(Len(timers) - 1) |-> IF j < i THEN timers[j] ELSE timers[j + 1]]
  /\ storage' = EdgeWrite(storage, items, heap)
  /\ cookie' = CookieCount(items, heap)
  /\ hist' = [hist EXCEPT !.ok = BurstWrite(@), !.any = BurstWrite(@), !.last = NoLast,
                           !.cleared = IF @ = 0 THEN 0 ELSE 2]
  /\ ret' = NoReturn
  /\ UNCHANGED <<loaderVars, calls, busVars, items, heap>>

-----------------------------------------------------------------------------
(* A second tab on the same origin: the same adapter module evaluated in   *)
(* another page, with its own `items` and timer and the same localStorage. *)
(* The tab whose turn it is holds items / heap / timers; `other` holds the *)
(* module state of the tab that is waiting.                                *)

\* the second tab is opened: its module is evaluated, restore() runs
OpenTab ==
  /\ UNCHANGED authVars
  /\ Kind # ""
  /\ ~other.open
  /\ other' = Tab(TRUE, items, heap, timers)
  /\ LET r == Restore(Kind, storage[KeyOf(Kind)])
     IN /\ items' = FreshItems(r.items)
        /\ heap' = FreshHeap(r.items)
        /\ storage' = AfterRestore(Kind, storage)
  /\ timers' = <<>>
  /\ ret' = NoReturn
  /\ hist' = [hist EXCEPT !.last = NoLast]
  /\ UNCHANGED <<loaderVars, calls, cookie, busVars>>

\* the next thing happens in the other tab
SwitchTab ==
  /\ UNCHANGED authVars
  /\ other.open
  /\ other' = Tab(TRUE, items, heap, timers)
  /\ items' = other.items
  /\ heap' = other.heap
  /\ timers' = other.timers
  /\ ret' = NoReturn
  /\ hist' = [hist EXCEPT !.last = NoLast]
  /\ UNCHANGED <<loaderVars, calls, storage, cookie, busVars>>

-----------------------------------------------------------------------------
(* Event bus (events.js) *)

CART_UPDATED == "commerce:cart-updated"
CART_EMPTY == "commerce:cart-empty"
ORDER_CREATED == "commerce:order-created"
AUTH_EVENT == "commerce:auth-state-changed"

\* EVENTS[key]: a key the enum does not define reads as undefined, and
\* new CustomEvent(undefined) has the type "undefined"
EVENTS(key) ==
  CASE key = "CART_UPDATED" -> CART_UPDATED
    [] key = "CART_EMPTY" -> CART_EMPTY
    [] key = "ORDER_CREATED" -> ORDER_CREATED
    [] OTHER -> "undefined"

EventNames == {CART_UPDATED, CART_EMPTY, ORDER_CREATED, AUTH_EVENT, "undefined"}

\* an event detail: hasCart tells whether detail.cart is defined
Detail(hasCart, cart, action) == [hasCart |-> hasCart, cart |-> cart, action |-> action]

\* document.dispatchEvent(new CustomEvent(name, {detail})): the dispatch
\* (to = 0) followed by one delivery per registered callback, in order
DispatchEvent(ls, name, detail) ==
  <<[name |-> name, to |-> 0, detail |-> detail]>>
  \o [k \in 1..ls[name] |-> [name |-> name, to |-> k, detail |-> detail]]

\* A seeded fault for dispatch(): cart-empty is derived for every event name.
DispatchAnyName(ls, name, detail) ==
  DispatchEvent(ls, name, detail)
  \o (IF detail.hasCart /\ detail.cart.itemCount = 0
      THEN DispatchEvent(ls, CART_EMPTY, detail) ELSE <<>>)

\* dispatch(name, detail)
Dispatch(ls, name, detail) ==
  DispatchEvent(ls, name, detail)
  \o (IF name = EVENTS("CART_UPDATED") /\ detail.hasCart /\ detail.cart.itemCount = 0
      THEN DispatchEvent(ls, EVENTS("CART_EMPTY"), detail) ELSE <<>>)

\* how a facade call (or a direct dispatch) ended: by is the adapter instance
\* that served it, order the order it resolved with, status the status its
\* error carries, got the status its request received (-1: no request)
Done(op, outcome, by, order, status, got) ==
  [op |-> op, outcome |-> outcome, by |-> by, order |-> order, status |-> status, got |-> got]
NoDone == Done("", "", 0, "", 0, 0 - 1)

\* listen(name, callback)
Listen(name) ==
  /\ UNCHANGED extVars
  /\ listeners[name] < MaxListeners
  /\ listeners' = [listeners EXCEPT ![name] = @ + 1]
  /\ log' = <<>>
  /\ done' = NoDone
  /\ UNCHANGED <<loaderVars, calls, storeVars, ret, hist>>

\* the unsubscribe function listen() returned
Unlisten(name) ==
  /\ UNCHANGED extVars
  /\ listeners[name] > 0
  /\ listeners' = [listeners EXCEPT ![name] = @ - 1]
  /\ log' = <<>>
  /\ done' = NoDone
  /\ UNCHANGED <<loaderVars, calls, storeVars, ret, hist>>

DetailInputs ==
  {Detail(TRUE, [items |-> <<>>, itemCount |-> n, subtotal |-> 0, shipping |-> 0], a)
     : n \in 0..1, a \in {"", "clear"}}
  \cup {Detail(FALSE, NoCart, "")}

\* a direct call of dispatch(name, detail)
CallDispatch(name, detail) ==
  /\ UNCHANGED extVars
  /\ log' = Dispatch(listeners, name, detail)
  /\ done' = Done("dispatch", name, 0, "", 0, 0 - 1)
  /\ UNCHANGED <<loaderVars, calls, storeVars, listeners, ret, hist>>

-----------------------------------------------------------------------------
(* Network-backed operations of the edge adapter (orders, auth, account).  *)
(* A call runs up to its fetch(), the request is in flight, and the call   *)
(* resumes with the response: a status (0: fetch itself rejected) and a    *)
(* body, which is JSON or not and may carry token, email and message.      *)

MaxReqs == 2

Tokens == {"t1", "t2"}
Emails == {"a@x"}
NetOps == {"login", "verifyCode", "logout", "createOrder", "getOrder"}
ReadOps == {"getCustomerProfile", "getOrders"}

Resp(status, json, tk, email, message) ==
  [status |-> status, json |-> json, token |-> tk, email |-> email, message |-> message]

\* what the backend may answer: success bodies with and without a token,
\* error bodies with and without a message, bodies that are not JSON, and
\* no answer at all
Responses ==
  {Resp(200, TRUE, tk, e, "") : tk \in Tokens \cup {""}, e \in Emails}
  \cup {Resp(200, FALSE, "", "", "")}
  \cup {Resp(st, TRUE, "", "", m) : st \in {401, 500}, m \in {"", "denied"}}
  \cup {Resp(500, FALSE, "", "", "")}
  \cup {Resp(0, FALSE, "", "", "")}

\* what the backend may answer to POST /orders
OrderResponses ==
  {Resp(200, TRUE, "", "", ""), Resp(200, FALSE, "", "", ""),
   Resp(401, TRUE, "", "", ""), Resp(500, TRUE, "", "", "denied"),
   Resp(0, FALSE, "", "", "")}

\* resp.ok
Ok(resp) == resp.status = 200

\* JSON.stringify({email, roles}) as kept under auth_user
Profile(email) == [kind |-> "json", email |-> email, roles |-> "r"]

\* isLoggedIn()
IsLoggedIn(tk) == tk # ""

\* getCustomer(): the email of the parsed profile, "" for null or no email
GetCustomerEmail(us) == IF us.kind = "json" THEN us.email ELSE ""

\* how a call ends: the two stores, resolved or rejected, the value resolved
\* with, the status its error message carries (0: none), events dispatched
Result(tk, us, outcome, value, carries, events) ==
  [token |-> tk, user |-> us, outcome |-> outcome, value |-> value,
   carries |-> carries, events |-> events]

\* throw new Error(err.message || `... failed: ${resp.status}`), err being
\* the parsed body or {} when it does not parse
ThrowMessageOrStatus(tk, us, resp) ==
  Result(tk, us, "rejected", "", IF resp.json /\ resp.message # "" THEN 0 ELSE resp.status, 0)

\* throw new Error(`... failed: ${resp.status}`)
ThrowStatus(tk, us, resp) == Result(tk, us, "rejected", "", resp.status, 0)

\* fetch() rejected, or resp.json() rejected
ThrowOther(tk, us) == Result(tk, us, "rejected", "", 0, 0)

\* login(email) from the response on
Login(tk, us, resp) ==
  IF resp.status = 0 THEN ThrowOther(tk, us)
  ELSE IF ~Ok(resp) THEN ThrowMessageOrStatus(tk, us, resp)
  ELSE IF ~resp.json THEN ThrowOther(tk, us)
  ELSE Result(tk, us, "resolved", "data", 0, 0)

\* A seeded fault for verifyCode(): the whole response is kept as the profile.
VerifyCodeKeepsData(tk, us, resp) ==
  IF resp.status = 0 THEN ThrowOther(tk, us)
  ELSE IF ~Ok(resp) THEN ThrowMessageOrStatus(tk, us, resp)
  ELSE IF ~resp.json THEN ThrowOther(tk, us)
  ELSE Result(IF resp.token # "" THEN resp.token ELSE tk,
              [kind |-> "json", email |-> resp.email, roles |-> "r", token |-> resp.token],
              "resolved", "data", 0, 0)

\* verifyCode(email, code, hash, exp) from the response on
VerifyCode(tk, us, resp) ==
  IF resp.status = 0 THEN ThrowOther(tk, us)
  ELSE IF ~Ok(resp) THEN ThrowMessageOrStatus(tk, us, resp)
  ELSE IF ~resp.json THEN ThrowOther(tk, us)
  ELSE Result(IF resp.token # "" THEN resp.token ELSE tk, Profile(resp.email),
              "resolved", "data", 0, 0)

\* A seeded fault for logout(): the stores are cleared only when the backend
\* confirmed.
LogoutIfConfirmed(tk, us, resp) ==
  IF Ok(resp) THEN Result("", NoUser, "resolved", "void", 0, 0)
  ELSE Result(tk, us, "resolved", "void", 0, 0)

\* logout() from the response (or the caught rejection) on
Logout(tk, us, resp) == Result("", NoUser, "resolved", "void", 0, 0)

\* A seeded fault for authFetch(): every error status tears the session down.
AuthFetchThenAnyError(tk, us, resp) ==
  IF ~Ok(resp) THEN Result("", NoUser, "", "", 0, 1) ELSE Result(tk, us, "", "", 0, 0)

\* authFetch(): the .then callback on the response
AuthFetchThen(tk, us, resp) ==
  IF resp.status = 401 THEN Result("", NoUser, "", "", 0, 1) ELSE Result(tk, us, "", "", 0, 0)

\* getCustomerProfile() / getOrders() from the response on; none is the
\* value returned in place of a result (null, [])
AuthRead(tk, us, resp, none) ==
  IF resp.status = 0 THEN ThrowOther(tk, us)
  ELSE LET a == AuthFetchThen(tk, us, resp)
       IN IF ~Ok(resp) THEN Result(a.token, a.user, "resolved", none, 0, a.events)
          ELSE IF ~resp.json THEN ThrowOther(a.token, a.user)
          ELSE Result(a.token, a.user, "resolved", "data", 0, a.events)

\* A seeded fault for createOrder(): resp.ok is not looked at.
OrderCallLenient(tk, us, resp) ==
  IF resp.status = 0 THEN ThrowOther(tk, us)
  ELSE IF ~resp.json THEN ThrowOther(tk, us)
  ELSE Result(tk, us, "resolved", "order", 0, 0)

\* createOrder() / getOrder() from the response on
OrderCall(tk, us, resp) ==
  IF resp.status = 0 THEN ThrowOther(tk, us)
  ELSE IF ~Ok(resp) THEN ThrowStatus(tk, us, resp)
  ELSE IF ~resp.json THEN ThrowOther(tk, us)
  ELSE Result(tk, us, "resolved", "order", 0, 0)

NoneOf(op) == IF op = "getOrders" THEN "[]" ELSE "null"

Resume(op, tk, us, resp) ==
  CASE op = "login" -> Login(tk, us, resp)
    [] op = "verifyCode" -> VerifyCode(tk, us, resp)
    [] op = "logout" -> Logout(tk, us, resp)
    [] op \in ReadOps -> AuthRead(tk, us, resp, NoneOf(op))
    [] OTHER -> OrderCall(tk, us, resp)

\* detail of the event authFetch dispatches on a 401
ExpiredDetail ==
  [hasCart |-> FALSE, cart |-> NoCart, action |-> "",
   loggedIn |-> FALSE, email |-> "null", reason |-> "token_expired"]

\* the record of a completed call: got is the status received (-1 when no
\* request was made), had tells whether a token was held before its last
\* step, sent whether its request carried the token
Reply(op, res, got, had, sent) ==
  [op |-> op, outcome |-> res.outcome, value |-> res.value, status |-> res.carries,
   events |-> res.events, got |-> got, had |-> had, sent |-> sent]

\* a request in flight: auth tells whether it carries `Authorization: Bearer`
Req(op, auth) == [op |-> op, auth |-> auth]

\* createOrder, getOrder and logout attach the token when one is stored;
\* login and verifyCode never do
Attaches(op, tk) == op \in {"createOrder", "getOrder", "logout"} /\ tk # ""

authFrame == <<loaderVars, calls, storeVars, listeners, done, ret, hist, other>>

\* a call of login / verifyCode / logout / createOrder / getOrder, up to its fetch()
NetStart(op) ==
  /\ Kind = "edge"
  /\ BagCardinality(reqs) < MaxReqs
  /\ reqs' = reqs (+) SetToBag({Req(op, Attaches(op, token))})
  /\ reply' = NoReply
  /\ log' = <<>>
  /\ UNCHANGED <<token, user>>
  /\ UNCHANGED authFrame

\* a call of getCustomerProfile / getOrders, up to authFetch's fetch(): it
\* returns at once without a profile, and authFetch throws without a token
ReadStart(op) ==
  /\ Kind = "edge"
  /\ BagCardinality(reqs) < MaxReqs
  /\ IF GetCustomerEmail(user) = ""
     THEN /\ reply' = Reply(op, Result(token, user, "resolved", NoneOf(op), 0, 0), 0 - 1, IsLoggedIn(token), FALSE)
          /\ UNCHANGED reqs
     ELSE IF token = ""
     THEN /\ reply' = Reply(op, ThrowOther(token, user), 0 - 1, FALSE, FALSE)
          /\ UNCHANGED reqs
     ELSE /\ reqs' = reqs (+) SetToBag({Req(op, TRUE)})
          /\ reply' = NoReply
  /\ log' = <<>>
  /\ UNCHANGED <<token, user>>
  /\ UNCHANGED authFrame

\* detail of the events the facade dispatches after verifyCode and logout
AuthDetail(loggedIn, email) ==
  [hasCart |-> FALSE, cart |-> NoCart, action |-> "",
   loggedIn |-> loggedIn, email |-> email, reason |-> ""]

\* commerce.verifyCode / commerce.logout once `await a.<op>(...)` is over:
\* dispatch(EVENTS.AUTH_STATE_CHANGED, ...) when the adapter call resolved
CommerceAuthEvents(op, res, resp) ==
  IF res.outcome # "resolved" THEN <<>>
  ELSE IF op = "verifyCode"
  THEN Dispatch(listeners, EVENTS("AUTH_STATE_CHANGED"), AuthDetail(TRUE, resp.email))
  ELSE IF op = "logout"
  THEN Dispatch(listeners, EVENTS("AUTH_STATE_CHANGED"), AuthDetail(FALSE, "null"))
  ELSE <<>>

\* the response to a request in flight arrives and its call runs to its
\* end; facade tells whether the adapter was called through commerce.<op>
Arrive(op, resp, facade) ==
  /\ \E r \in BagToSet(reqs) :
       /\ r.op = op
       /\ reqs' = reqs (-) SetToBag({r})
       /\ LET res == Resume(op, token, user, resp)
          IN /\ token' = res.token
             /\ user' = res.user
             /\ reply' = Reply(op, res, resp.status, IsLoggedIn(token), r.auth)
             /\ log' = (IF res.events = 0 THEN <<>>
                        ELSE DispatchEvent(listeners, AUTH_EVENT, ExpiredDetail))
                       \o (IF facade THEN CommerceAuthEvents(op, res, resp) ELSE <<>>)
  /\ UNCHANGED authFrame

\* Another tab of the same origin completes verifyCode, logs out or is torn
\* down by a 401: localStorage auth_user is shared between tabs, the
\* sessionStorage token of this tab is not touched.
OtherTabSession(us) ==
  /\ Kind = "edge"
  /\ us # user
  /\ user' = us
  /\ reply' = NoReply
  /\ log' = <<>>
  /\ UNCHANGED <<token, reqs>>
  /\ UNCHANGED authFrame

\* a direct adapter call resumes with its response
Respond(op, resp) == Arrive(op, resp, FALSE)

\* a call of commerce.<op> resumes with its response
CommerceRespond(op, resp) == Arrive(op, resp, TRUE)

-----------------------------------------------------------------------------
(* Adapter resolver (api.js) *)

Import(name, state, inst) == [name |-> name, state |-> state, inst |-> inst]
NoAdapter == [kind |-> "", id |-> 0]
Overrides == {"", "mock", "bogus"}
Modules == {"mock", "edge"}

\* getAdapterName()
GetAdapterName(ov) == IF ov # "" THEN ov ELSE ADAPTER

Resolution(imps, ld, wait, inst) ==
  [imports |-> imps, loading |-> ld, wait |-> wait, inst |-> inst]

\* A seeded fault for loadAdapter(): no check of the in-flight promise.
LoadAdapterNoSingleFlight(ad, ld, imps, ov) ==
  IF ad.kind # "" THEN Resolution(imps, ld, 0, ad.id)
  ELSE Resolution(Append(imps, Import(GetAdapterName(ov), "pending", 0)),
                  Len(imps) + 1, Len(imps) + 1, 0)

\* A seeded fault for loadAdapter(): a rejected in-flight promise is
\* dropped and the import is tried again.
LoadAdapterRetries(ad, ld, imps, ov) ==
  IF ad.kind # "" THEN Resolution(imps, ld, 0, ad.id)
  ELSE IF ld # 0 /\ imps[ld].state # "rejected" THEN Resolution(imps, ld, ld, 0)
  ELSE Resolution(Append(imps, Import(GetAdapterName(ov), "pending", 0)),
                  Len(imps) + 1, Len(imps) + 1, 0)

\* loadAdapter() up to its return: the adapter itself (inst), or the import
\* promise the caller then waits on (wait)
LoadAdapter(ad, ld, imps, ov) ==
  IF ad.kind # "" THEN Resolution(imps, ld, 0, ad.id)
  ELSE IF ld # 0 THEN Resolution(imps, ld, ld, 0)
  ELSE Resolution(Append(imps, Import(GetAdapterName(ov), "pending", 0)),
                  Len(imps) + 1, Len(imps) + 1, 0)

Resolved(imps) == {j \in 1..Len(imps) : imps[j].state = "resolved"}

\* localStorage.setItem / removeItem('commerce-adapter')
SetOverride(v) ==
  /\ UNCHANGED extVars
  /\ v # override
  /\ override' = v
  /\ UNCHANGED <<imports, loading, adapter, calls, storeVars, busVars, ret, hist>>

\* The import resolves: the module is evaluated (restore() runs, once per
\* module), then the .then callback runs the factory and clears `loading`.
ImportResolve(i) ==
  /\ UNCHANGED extVars
  /\ i \in 1..Len(imports)
  /\ imports[i].state = "pending"
  /\ imports[i].name \in Modules
  /\ LET name == imports[i].name
         id == Cardinality(Resolved(imports)) + 1
         first == \A j \in Resolved(imports) : imports[j].name # name
         r == Restore(name, storage[KeyOf(name)])
     IN /\ imports' = [imports EXCEPT ![i] = Import(name, "resolved", id)]
        /\ adapter' = [kind |-> name, id |-> id]
        /\ loading' = 0
        /\ IF first
           THEN /\ items' = FreshItems(r.items)
                /\ heap' = FreshHeap(r.items)
                /\ storage' = AfterRestore(name, storage)
           ELSE UNCHANGED <<items, heap, storage>>
  /\ UNCHANGED <<override, calls, timers, cookie, busVars, ret, hist>>

\* The import rejects: no module of that name.  `loading` keeps the promise.
ImportReject(i) ==
  /\ UNCHANGED extVars
  /\ i \in 1..Len(imports)
  /\ imports[i].state = "pending"
  /\ imports[i].name \notin Modules
  /\ imports' = [imports EXCEPT ![i].state = "rejected"]
  /\ UNCHANGED <<override, loading, adapter, calls, storeVars, busVars, ret, hist>>

-----------------------------------------------------------------------------
(* Facade calls (api.js `commerce`).  A call runs in three steps: up to    *)
(* `await loadAdapter()`, from there to `await a.op(...)`, and the rest.   *)

CartOps == {"addToCart", "updateItemQuantity", "removeItem", "clearCart"}

\* a call suspended at `await loadAdapter()`: it holds the adapter (inst) or
\* waits on an import (wait)
Call(op, sku, q, wait, inst) ==
  [pc |-> "load", op |-> op, sku |-> sku, qty |-> q, wait |-> wait,
   inst |-> inst, by |-> 0, cart |-> NoCart, err |-> FALSE,
   order |-> "", status |-> 0, got |-> 0 - 1, payload |-> <<>>, seen |-> <<>>]

One(c) == SetToBag({c})

\* the literal `empty` of commerce.clearCart
EmptyCart == [items |-> <<>>, itemCount |-> 0, subtotal |-> 0, shipping |-> 0]

ActionOf(op) ==
  CASE op = "addToCart" -> "add"
    [] op = "updateItemQuantity" -> "update"
    [] op = "removeItem" -> "remove"
    [] op = "clearCart" -> "clear"
    [] OTHER -> ""

\* commerce.<op>(...) is called: loadAdapter() runs, the call suspends
Issue(op, sku, q) ==
  /\ UNCHANGED extVars
  /\ BagCardinality(calls) < MaxCalls
  /\ LET l == LoadAdapter(adapter, loading, imports, override)
     IN /\ imports' = l.imports
        /\ loading' = l.loading
        /\ calls' = calls (+) One(Call(op, sku, q, l.wait, l.inst))
  /\ log' = <<>>
  /\ done' = NoDone
  /\ UNCHANGED <<override, adapter, storeVars, listeners, ret, hist>>

\* the adapter instance `a` the suspended call c resumes with, 0 while pending
Instance(c) ==
  IF c.inst # 0 THEN c.inst
  ELSE IF imports[c.wait].state = "resolved" THEN imports[c.wait].inst
  ELSE 0

\* loadAdapter() rejected: the call rejects, nothing is dispatched
LoadFailed(c) ==
  /\ UNCHANGED extVars
  /\ c.pc = "load"
  /\ c.inst = 0
  /\ imports[c.wait].state = "rejected"
  /\ calls' = calls (-) One(c)
  /\ done' = Done(c.op, "rejected", 0, "", 0, 0 - 1)
  /\ log' = <<>>
  /\ UNCHANGED <<loaderVars, storeVars, listeners, ret, hist>>

\* call c after `a.<op>(...)` returned cart k or threw
Ran(c, k, err) ==
  (calls (-) One(c)) (+) One([c EXCEPT !.pc = "op", !.by = Instance(c), !.cart = k, !.err = err])

\* A seeded fault for createOrder(): every wire item has quantity 1.
WireItemsUnit(vals) ==
  [i \in 1..Len(vals) |-> [sku |-> vals[i].sku, quantity |-> 1, final |-> vals[i].price]]

\* createOrder(): cart.items.map(item => ({sku, quantity, price: {final}, ...}))
\* builds new objects out of the line items' values
WireItems(vals) ==
  [i \in 1..Len(vals) |->
     [sku |-> vals[i].sku, quantity |-> vals[i].quantity, final |-> vals[i].price]]

\* edge createOrder up to `await fetch(...)`: the body has been serialized
\* (payload; seen records the cart it was built from), the request is in flight
Sent(c) ==
  (calls (-) One(c))
  (+) One([c EXCEPT !.pc = "fetch", !.by = Instance(c),
                    !.payload = WireItems(Values(items, heap)),
                    !.seen = Values(items, heap)])

\* mock createOrder: the order is built and returned, no request is made
MockCreateOrder == Result(token, user, "resolved", "mock-order", 0, 0 - 1)

\* call c after a.createOrder(...) ended as res (events holds the status
\* that was received)
RanOrder(c, res) ==
  (calls (-) One(c))
  (+) One([c EXCEPT !.pc = "op", !.by = Instance(c), !.err = (res.outcome = "rejected"),
                    !.order = res.value, !.status = res.carries, !.got = res.events,
                    !.payload = IF c.pc = "load" THEN WireItems(Values(items, heap)) ELSE @,
                    !.seen = IF c.pc = "load" THEN Values(items, heap) ELSE @])

\* the call resumes with the adapter and runs a.<op>(...)
Run(c) ==
  /\ UNCHANGED extVars
  /\ c.pc = "load"
  /\ Instance(c) # 0
  /\ Loaded_
  /\ \/ /\ c.op = "addToCart"
        /\ CanAdd(c.sku, c.qty)
        /\ LET r == AddItem(items, heap, Item(c.sku, c.qty))
           IN /\ Commit(r)
              /\ calls' = Ran(c, BuildCart(Kind, r.items, r.heap), FALSE)
              /\ heap' = Collect(r.heap, r.items, calls')
     \/ /\ c.op = "getCart"
        /\ calls' = Ran(c, BuildCart(Kind, items, heap), FALSE)
        /\ UNCHANGED storeVars
     \/ /\ c.op = "updateItemQuantity"
        /\ LET r == UpdateItem(Kind, items, heap, c.sku, c.qty)
           IN IF r.threw
              THEN /\ calls' = Ran(c, NoCart, TRUE)
                   /\ UNCHANGED storeVars
              ELSE /\ Commit(r)
                   /\ calls' = Ran(c, BuildCart(Kind, r.items, r.heap), FALSE)
                   /\ heap' = Collect(r.heap, r.items, calls')
     \/ /\ c.op = "removeItem"
        /\ LET r == RemoveItem(items, heap, c.sku)
           IN /\ Commit(r)
              /\ calls' = Ran(c, BuildCart(Kind, r.items, r.heap), FALSE)
              /\ heap' = Collect(r.heap, r.items, calls')
     \/ /\ c.op = "clearCart"
        /\ LET r == ClearItems(items, heap)
           IN /\ CommitNow(r)
              /\ calls' = Ran(c, NoCart, FALSE)
              /\ heap' = Collect(r.heap, r.items, calls')
     \/ /\ c.op = "createOrder"
        /\ calls' = IF Kind = "edge" THEN Sent(c) ELSE RanOrder(c, MockCreateOrder)
        /\ UNCHANGED storeVars
  /\ log' = <<>>
  /\ done' = NoDone
  /\ UNCHANGED <<loaderVars, listeners, ret, hist>>

\* the response to an edge createOrder arrives: the adapter call returns
\* the order or throws, the facade call resumes next
Answer(c, resp) ==
  /\ UNCHANGED extVars
  /\ c.pc = "fetch"
  /\ calls' = RanOrder(c, [OrderCall(token, user, resp) EXCEPT !.events = resp.status])
  /\ log' = <<>>
  /\ done' = NoDone
  /\ UNCHANGED <<loaderVars, storeVars, listeners, ret, hist>>

\* detail of order-created: { order }
OrderDetail(order) == [hasCart |-> FALSE, cart |-> NoCart, action |-> "", order |-> order]

\* A seeded fault for the facade: the event is dispatched although the
\* adapter call was rejected.
FacadeEventsAlways(op, sku, q, k, err) ==
  IF op \in {"addToCart", "updateItemQuantity", "removeItem"}
  THEN Dispatch(listeners, EVENTS("CART_UPDATED"), Detail(TRUE, k, ActionOf(op)))
  ELSE IF op = "clearCart"
  THEN Dispatch(listeners, EVENTS("CART_UPDATED"), Detail(TRUE, EmptyCart, "clear"))
  ELSE IF op = "createOrder"
  THEN Dispatch(listeners, EVENTS("ORDER_CREATED"), OrderDetail(k))
  ELSE <<>>

\* what the rest of commerce.<op> dispatches once `await a.op(...)` is over:
\* k is what the adapter returned (a cart as the listeners read it, an order)
FacadeEvents(op, sku, q, k, err) ==
  IF err THEN <<>>
  ELSE IF op \in {"addToCart", "updateItemQuantity", "removeItem"}
  THEN Dispatch(listeners, EVENTS("CART_UPDATED"), Detail(TRUE, k, ActionOf(op)))
  ELSE IF op = "clearCart"
  THEN Dispatch(listeners, EVENTS("CART_UPDATED"), Detail(TRUE, EmptyCart, "clear"))
  ELSE IF op = "createOrder"
  THEN Dispatch(listeners, EVENTS("ORDER_CREATED"), OrderDetail(k))
  ELSE <<>>

\* the call resumes after `await a.op(...)`: it rejects, or dispatches and returns
Finish(c) ==
  /\ UNCHANGED extVars
  /\ c.pc = "op"
  /\ log' = FacadeEvents(c.op, c.sku, c.qty,
                          IF c.op = "createOrder" THEN c.order ELSE View(c.cart, heap), c.err)
  /\ done' = Done(c.op, IF c.err THEN "rejected" ELSE "resolved", c.by,
                  c.order, c.status, c.got)
  /\ calls' = calls (-) One(c)
  /\ heap' = Collect(heap, items, calls')
  /\ UNCHANGED <<loaderVars, items, timers, storage, cookie, listeners, ret, hist>>

\* The page is reloaded: memory, timers and calls in flight are gone;
\* localStorage and the cookie stay.
Reload ==
  /\ UNCHANGED extVars
  /\ adapter.kind # "" \/ imports # <<>>
  /\ imports' = <<>>
  /\ loading' = 0
  /\ adapter' = NoAdapter
  /\ calls' = EmptyBag
  /\ items' = <<>>
  /\ heap' = [o \in Oids |-> NoObj]
  /\ timers' = <<>>
  /\ log' = <<>>
  /\ done' = NoDone
  /\ UNCHANGED <<override, storage, cookie, listeners, ret, hist>>

-----------------------------------------------------------------------------
(* Specifications *)

A1 == Item("A", 1)

InitRaw(kind) ==
  IF kind = "edge"
  THEN {Absent, Garbage, Array(<<A1>>), Envelope(STORAGE_VERSION, <<A1>>),
        Envelope(STORAGE_VERSION + 1, <<A1>>), Envelope(STORAGE_VERSION, <<A1, NullElem>>)}
  ELSE {Absent, Garbage, Array(<<A1>>), Array(<<A1, NullElem>>),
        Envelope(STORAGE_VERSION, <<A1>>)}

FacadeSkus == {"A"}
FacadeCalls ==
  {<<"addToCart", sku, 1>> : sku \in FacadeSkus}
  \cup {<<"updateItemQuantity", sku, q>> : sku \in FacadeSkus, q \in {0}}
  \cup {<<"removeItem", sku, 0>> : sku \in FacadeSkus}
  \cup {<<"clearCart", "", 0>>, <<"getCart", "", 0>>, <<"createOrder", "", 0>>}

\* The page has loaded; nothing of the commerce core has run yet.
Init ==
  /\ override \in Overrides
  /\ imports = <<>>
  /\ loading = 0
  /\ adapter = NoAdapter
  /\ calls = EmptyBag
  /\ items = <<>>
  /\ heap = [o \in Oids |-> NoObj]
  /\ timers = <<>>
  /\ \E e \in {Absent, Envelope(STORAGE_VERSION, <<A1>>)} :
       storage = [k \in {EDGE_KEY, MOCK_KEY} |-> IF k = EDGE_KEY THEN e ELSE Absent]
  /\ cookie = 0 - 1
  /\ listeners = [n \in EventNames |-> 1]
  /\ log = <<>>
  /\ done = NoDone
  /\ ret = NoReturn
  /\ hist = HistInit(TRUE)
  /\ Signedout

Next ==
  \/ \E v \in Overrides : SetOverride(v)
  \/ \E c \in FacadeCalls : Issue(c[1], c[2], c[3])
  \/ \E i \in 1..Len(imports) : ImportResolve(i)
  \/ \E i \in 1..Len(imports) : ImportReject(i)
  \/ \E c \in BagToSet(calls) : LoadFailed(c)
  \/ \E c \in BagToSet(calls) : Run(c)
  \/ \E c \in BagToSet(calls), resp \in OrderResponses : Answer(c, resp)
  \/ \E c \in BagToSet(calls) : Finish(c)
  \/ Reload

Spec == Init /\ [][Next]_vars

\* The cart store driven directly: the adapter module has been imported
\* (restore() has run on what storage held) and its methods are called.
InitPage ==
  /\ override = ""
  /\ \E kind \in Modules : \E raw \in InitRaw(kind) :
       LET st == [k \in {EDGE_KEY, MOCK_KEY} |-> IF k = KeyOf(kind) THEN raw ELSE Absent]
           r == Restore(kind, raw)
       IN /\ adapter = [kind |-> kind, id |-> 1]
          /\ imports = <<Import(kind, "resolved", 1)>>
          /\ items = FreshItems(r.items)
          /\ heap = FreshHeap(r.items)
          /\ storage = AfterRestore(kind, st)
          /\ hist = HistBoot(raw, r)
  /\ loading = 0
  /\ calls = EmptyBag
  /\ timers = <<>>
  /\ listeners = [n \in EventNames |-> 1]
  /\ log = <<>>
  /\ done = NoDone
  /\ ret = NoReturn
  /\ Signedout

\* no cart_items_count cookie is set
InitCart == InitPage /\ cookie = 0 - 1

\* the cookie persistNow() left when the stored text was written: the sum of
\* the quantities of a stored item list, no cookie otherwise
CookieLeft(raw) ==
  IF raw.kind \in {"envelope", "array"} THEN Count(raw.items) ELSE 0 - 1

\* The adapter module has been evaluated on a page whose cookie still
\* has the count that went with the stored text.
InitBoot == InitPage /\ cookie = CookieLeft(hist.boot)

NextCart ==
  \/ \E sku \in SKUs, q \in AddQtys : AdapterAddToCart(sku, q)
  \/ AdapterGetCart
  \/ \E sku \in SKUs, q \in UpdQtys : AdapterUpdateItemQuantity(sku, q)
  \/ \E sku \in SKUs : AdapterRemoveItem(sku)
  \/ AdapterClearCart
  \/ AdapterReload
  \/ \E d \in TimeSteps : Tick(d)
  \/ TimerFire

SpecCart == InitCart /\ [][NextCart]_vars

SpecBoot == InitBoot /\ [][NextCart]_vars

\* The event bus alone: callbacks come and go, dispatch is called.
InitEvents ==
  /\ Init
  /\ override = ""
  /\ storage = [k \in {EDGE_KEY, MOCK_KEY} |-> Absent]

NextEvents ==
  \/ \E n \in EventNames : Listen(n)
  \/ \E n \in EventNames : Unlisten(n)
  \/ \E n \in EventNames, d \in DetailInputs : CallDispatch(n, d)

SpecEvents == InitEvents /\ [][NextEvents]_vars

\* The edge adapter's session: calls are made and answered in any order.
InitAuth ==
  /\ InitCart
  /\ Kind = "edge"
  /\ storage[EDGE_KEY] = Absent

NextAuth ==
  \/ \E op \in NetOps : NetStart(op)
  \/ \E op \in ReadOps : ReadStart(op)
  \/ \E op \in NetOps \cup ReadOps, resp \in Responses : Respond(op, resp)
  \/ AdapterClearCart

SpecAuth == InitAuth /\ [][NextAuth]_vars

\* The auth session of one tab, other tabs sharing localStorage.
NextShared ==
  \/ \E op \in {"verifyCode", "logout"} : NetStart(op)
  \/ \E op \in ReadOps : ReadStart(op)
  \/ \E op \in {"verifyCode", "logout"} \cup ReadOps, resp \in Responses : Respond(op, resp)
  \/ \E us \in {NoUser} \cup {Profile(e) : e \in Emails} : OtherTabSession(us)

SpecShared == InitAuth /\ [][NextShared]_vars

\* The auth session driven through the facade, the edge adapter loaded.
NextSession ==
  \/ \E op \in {"login", "verifyCode", "logout"} : NetStart(op)
  \/ \E op \in ReadOps : ReadStart(op)
  \/ \E op \in {"login", "verifyCode", "logout"} \cup ReadOps, resp \in Responses :
       CommerceRespond(op, resp)

SpecSession == InitAuth /\ [][NextSession]_vars

\* Two tabs on one localStorage, each adding to the cart.
InitTabs == InitCart /\ hist.boot = Absent

NextTabs ==
  \/ OpenTab
  \/ SwitchTab
  \/ \E sku \in SKUs : AdapterAddToCart(sku, 1)
  \/ \E d \in TimeSteps : Tick(d)
  \/ TimerFire

SpecTabs == InitTabs /\ [][NextTabs]_vars

-----------------------------------------------------------------------------
(* Properties *)

QtyOf(sku) ==
  IF Lookup(items, heap, sku) = 0 THEN 0 ELSE heap[Lookup(items, heap, sku)].quantity

Dispatches(l) == SelectSeq(l, LAMBDA e : e.to = 0)

\* C1: whatever the interleaving of facade calls and changes of the
\* override, the adapter module is imported at most once and the factory
\* runs at most once per page, and every adapter call that ran was served
\* by that one instance.
C1_SingleAdapter ==
  /\ Len(imports) <= 1
  /\ Cardinality(Resolved(imports)) <= 1
  /\ \A c \in BagToSet(calls) : c.pc = "op" => (c.by = 1 /\ c.by = adapter.id)
  /\ done.by \in {0, 1}

\* two calls were issued before the import completed, both were served, and
\* the override was changed after the import began
C1_Witness ==
  /\ BagCardinality(calls) = 2
  /\ \A c \in BagToSet(calls) : c.pc = "op" /\ c.wait = 1 /\ c.by = 1
  /\ adapter.kind = "edge"
  /\ override = "mock"

\* C2: a dispatch of cart-updated whose detail.cart.itemCount is 0 is
\* followed, after the deliveries to all cart-updated callbacks, by exactly
\* one dispatch of cart-empty with the same detail; any other dispatch
\* derives no cart-empty dispatch.
C2_CartEmptyDerived ==
  done.op = "dispatch" =>
    LET name == done.outcome
        d == log[1].detail
        n == listeners[name]
        derived == SubSeq(log, n + 2, Len(log))
    IN /\ Len(log) >= n + 1
       /\ \A k \in 0..n : log[k + 1] = [name |-> name, to |-> k, detail |-> d]
       /\ IF name = "commerce:cart-updated" /\ d.hasCart /\ d.cart.itemCount = 0
          THEN /\ Len(Dispatches(derived)) = 1
               /\ derived[1] = [name |-> "commerce:cart-empty", to |-> 0, detail |-> d]
               /\ Len(derived) = 1 + listeners["commerce:cart-empty"]
               /\ \A k \in 2..Len(derived) : derived[k].name = "commerce:cart-empty"
          ELSE derived = <<>>

\* cart-updated with an empty cart went to two callbacks, then cart-empty
C2_Witness ==
  /\ done.op = "dispatch"
  /\ done.outcome = "commerce:cart-updated"
  /\ listeners["commerce:cart-updated"] = 2
  /\ Len(log) > 3
  /\ log[4].name = "commerce:cart-empty"
  /\ log[4].detail.cart.itemCount = 0

\* C3: a facade addToCart / updateItemQuantity / removeItem / clearCart
\* whose adapter call succeeded dispatches exactly one cart-updated, after
\* the adapter ran, with action add / update / remove / clear; one whose
\* adapter call failed dispatches nothing and rejects.
C3_OneEventPerMutation ==
  done.op \in CartOps =>
    IF done.outcome = "resolved"
    THEN /\ done.by # 0
         /\ Len(SelectSeq(Dispatches(log), LAMBDA e : e.name = "commerce:cart-updated")) = 1
         /\ log[1].name = "commerce:cart-updated"
         /\ log[1].detail.action =
              (CASE done.op = "addToCart" -> "add"
                 [] done.op = "updateItemQuantity" -> "update"
                 [] done.op = "removeItem" -> "remove"
                 [] done.op = "clearCart" -> "clear")
    ELSE /\ done.outcome = "rejected"
         /\ log = <<>>

\* the adapter ran updateItemQuantity, threw, and the facade call rejected
C3_Witness ==
  /\ done.op = "updateItemQuantity"
  /\ done.outcome = "rejected"
  /\ done.by = 1

\* C4: after a run of addToCart calls on a cart that was empty, the
\* quantity of each sku is the sum of the quantities requested for it and
\* itemCount is the sum over all skus.
C4_AddSums ==
  hist.addOn =>
    /\ \A sku \in SKUs : QtyOf(sku) = hist.addSum[sku]
    /\ BuildCart(Kind, items, heap).itemCount = hist.addSum["A"] + hist.addSum["B"]

\* the last call added 1 to a sku already in the cart; the sums are 2 and 1
C4_Witness ==
  /\ hist.addOn
  /\ hist.last = [op |-> "addToCart", sku |-> "A", qty |-> 1, hit |-> TRUE]
  /\ hist.addSum["A"] = 2
  /\ hist.addSum["B"] = 1

\* C5: updateItemQuantity(sku, q) on a sku that is in the cart removes that
\* line item when q <= 0 and sets its quantity to q when q > 0; the other
\* line items, and their order, stay as they were; the returned cart and
\* the next getCart show exactly that.
C5_UpdateQuantity ==
  [][\A sku \in SKUs, q \in UpdQtys :
       (AdapterUpdateItemQuantity(sku, q) /\ Lookup(items, heap, sku) # 0) =>
         LET before == Values(items, heap)
             after == Values(items', heap')
         IN /\ IF q <= 0
               THEN after = SelectSeq(before, LAMBDA it : it.sku # sku)
               ELSE after = [i \in 1..Len(before) |->
                               IF before[i].sku = sku
                               THEN [before[i] EXCEPT !.quantity = q]
                               ELSE before[i]]
            /\ ret'.kind = "cart"
            /\ ret'.view.items = after]_vars

\* updateItemQuantity("A", 0) removed A from a cart that also holds B
C5_Witness ==
  /\ hist.last = [op |-> "updateItemQuantity", sku |-> "A", qty |-> 0, hit |-> TRUE]
  /\ Lookup(items, heap, "A") = 0
  /\ Lookup(items, heap, "B") # 0
  /\ ret.kind = "cart"

C7_QuantityAtLeastOne ==
  \A i \in 1..Len(items) : heap[items[i]].quantity >= 1

Corrupt(kind, raw) ==
  \/ raw.kind = "garbage"
  \/ kind = "edge" /\ raw.kind = "envelope" /\ raw.version # 1

\* C9: when the adapter starts on a persisted value that is unparsable or
\* (edge) carries another version, restore() raises nothing, the persisted
\* value is deleted and the cart is empty: getCart() gives no items and
\* itemCount 0.
C9_RestoreDiscards ==
  (hist.fresh /\ Corrupt(Kind, hist.boot)) =>
    /\ ~hist.raised
    /\ storage[KeyOf(Kind)] = Absent
    /\ items = <<>>
    /\ ret.kind = "cart" => (ret.view.items = <<>> /\ ret.view.itemCount = 0)

\* the edge adapter started on a version 2 envelope holding an item, and
\* getCart() was called
C9_Witness ==
  /\ Kind = "edge"
  /\ hist.fresh
  /\ hist.boot.kind = "envelope"
  /\ hist.boot.version = 2
  /\ hist.boot.items # <<>>
  /\ ret.kind = "cart"

\* what C10 says of a burst b of calls less than the debounce window apart
OneWritePerBurst(b) ==
  /\ Len(timers) <= 1
  /\ (Kind = "edge" /\ b.on) =>
       /\ b.writes <= 1
       /\ b.writes = 0 => Len(timers) = 1
       /\ b.writes = 1 =>
            /\ b.quiet >= 300
            /\ timers = <<>>
            /\ storage[EDGE_KEY] = Envelope(STORAGE_VERSION, Values(items, heap))

C11_ClearFlushes ==
  (Kind = "edge" /\ hist.cleared > 0) =>
    /\ storage[EDGE_KEY] = Envelope(STORAGE_VERSION, <<>>)
    /\ items = <<>>

\* a timer set before the clear has fired after it
C11_Witness ==
  /\ Kind = "edge"
  /\ hist.cleared = 2
  /\ timers = <<>>

\* C12: in the edge adapter, updateItemQuantity and removeItem on a sku that
\* is not in the cart both fail with an error.
C12_AbsentSkuFails ==
  (Kind = "edge" /\ hist.last.op \in {"updateItemQuantity", "removeItem"} /\ ~hist.last.hit) =>
    ret.kind = "error"

\* C13: once verifyCode has completed successfully, the token is in the
\* session store, the profile is in the durable store and isLoggedIn() is
\* true.
C13_VerifiedIsLoggedIn ==
  (reply.op = "verifyCode" /\ reply.outcome = "resolved") =>
    /\ token \in Tokens
    /\ user \in {Profile(e) : e \in Emails}
    /\ IsLoggedIn(token)

\* C14: when logout has completed, whatever the backend answered and even if
\* the request failed, the call has resolved, the token and the profile are
\* gone and isLoggedIn() is false.
C14_LogoutClears ==
  reply.op = "logout" =>
    /\ reply.outcome = "resolved"
    /\ token = ""
    /\ user = NoUser
    /\ ~IsLoggedIn(token)

\* logout of a signed-in session whose request failed at the network level
C14_Witness ==
  /\ reply.op = "logout"
  /\ reply.had
  /\ reply.got = 0

\* C15: when getCustomerProfile or getOrders receives a 401, the token and
\* the profile are removed, exactly one auth-state-changed event is
\* dispatched, with {loggedIn: false, email: null, reason: token_expired},
\* and isLoggedIn() is false afterwards; any other response leaves both
\* stores as they were and dispatches nothing.
C15_ExpiryTearsDown ==
  [][\A op \in ReadOps, resp \in Responses :
       Respond(op, resp) =>
         IF resp.status = 401
         THEN /\ token' = ""
              /\ user' = NoUser
              /\ ~IsLoggedIn(token')
              /\ Len(Dispatches(log')) = 1
              /\ log'[1].name = "commerce:auth-state-changed"
              /\ log'[1].detail.loggedIn = FALSE
              /\ log'[1].detail.email = "null"
              /\ log'[1].detail.reason = "token_expired"
         ELSE /\ token' = token
              /\ user' = user
              /\ log' = <<>>]_vars

\* getOrders of a signed-in session was answered 401
C15_Witness ==
  /\ reply.op = "getOrders"
  /\ reply.got = 401
  /\ reply.had
  /\ reply.events = 1
  /\ token = ""

\* C16: a getCustomerProfile or getOrders call that was answered 401 rejects.
C16_ExpiredCallRejects ==
  (reply.op \in ReadOps /\ reply.got = 401) => reply.outcome = "rejected"

\* C17: a createOrder, getOrder, login, verifyCode, getCustomerProfile or
\* getOrders call that received a non-success response rejects, with an
\* error that carries the status received.
C17_FailureCarriesStatus ==
  (reply.op \in (NetOps \cup ReadOps) \ {"logout"} /\ reply.got \in {401, 500}) =>
    /\ reply.outcome = "rejected"
    /\ reply.status = reply.got

\* C18: a facade createOrder whose adapter call succeeded dispatches exactly
\* one order-created event carrying the order the adapter returned; one
\* that was answered with a non-success status rejects with an error that
\* carries the status and dispatches nothing; no step of createOrder changes
\* the cart items or what is persisted.
C18_OrderCreated ==
  /\ [](done.op = "createOrder" =>
         /\ done.got \in {401, 500} => (done.outcome = "rejected" /\ done.status = done.got)
         /\ IF done.outcome = "resolved"
            THEN /\ done.order # ""
                 /\ Len(Dispatches(log)) = 1
                 /\ log[1].name = "commerce:order-created"
                 /\ log[1].detail.order = done.order
            ELSE log = <<>>)
  /\ [][\A c \in BagToSet(calls) :
         (c.op = "createOrder"
          /\ (Run(c) \/ Finish(c) \/ \E resp \in OrderResponses : Answer(c, resp))) =>
           /\ Values(items', heap') = Values(items, heap)
           /\ storage' = storage]_vars

\* an order was created through the edge adapter; the cart still holds items
C18_Witness ==
  /\ done.op = "createOrder"
  /\ done.outcome = "resolved"
  /\ done.got = 200
  /\ Kind = "edge"
  /\ items # <<>>

\* C19: a mutation is durable once its call has returned: whenever the page
\* is reloaded, the cart that restore() loads is the cart there was.
C19_DurableOnReturn ==
  [][AdapterReload => Values(items', heap') = Values(items, heap)]_vars

\* C20: with two tabs open that only add to the cart, once the writes of
\* both have landed the persisted cart holds every sku that either tab
\* added.
C20_TabsConsistent ==
  (other.open /\ hist.addOn /\ timers = <<>> /\ other.timers = <<>>) =>
    \A sku \in SKUs :
      hist.addSum[sku] > 0 =>
        \E i \in 1..Len(storage[KeyOf(Kind)].items) : storage[KeyOf(Kind)].items[i].sku = sku

\* C21: any request of the edge adapter that carried the token and was
\* answered 401 ends with the token and the profile removed and one
\* auth-state-changed event with reason token_expired dispatched.
C21_Any401TearsDown ==
  (reply.sent /\ reply.got = 401) =>
    /\ token = ""
    /\ user = NoUser
    /\ reply.events = 1
    /\ Len(Dispatches(log)) = 1
    /\ log[1].detail.reason = "token_expired"

\* C22: a getCustomerProfile or getOrders call made while no token is stored
\* rejects at once, without a request, whatever the profile store holds.
C22_NoTokenRejects ==
  (reply.op \in ReadOps /\ reply.got = 0 - 1 /\ ~reply.had) =>
    /\ reply.outcome = "rejected"
    /\ ~reply.sent

\* C23: every write the edge adapter makes, by the debounce timer or by
\* clearCart, sets the cart_items_count cookie to the sum of the quantities
\* of the items written in that envelope.
C23_CookieMirrorsWrite ==
  [][(Kind = "edge" /\ (TimerFire \/ AdapterClearCart)) =>
       /\ storage'[EDGE_KEY].kind = "envelope"
       /\ storage'[EDGE_KEY].items = Values(items', heap')
       /\ cookie' = Count(storage'[EDGE_KEY].items)]_vars

\* the timer has written a cart of two lines and three units
C23_Witness ==
  /\ Kind = "edge"
  /\ hist.ok.writes = 1
  /\ timers = <<>>
  /\ Len(storage[EDGE_KEY].items) = 2
  /\ cookie = 3

\* C24: the token is held in the session store only: the profile kept in
\* localStorage has the fields email and roles and nothing else, and no
\* text kept in localStorage (profile, cart, adapter override) is a token.
C24_TokenOnlyInSession ==
  /\ DOMAIN user = {"kind", "email", "roles"}
  /\ {user.kind, user.email, user.roles} \cap Tokens = {}
  /\ override \notin Tokens
  /\ \A k \in DOMAIN storage :
       /\ storage[k].kind \notin Tokens
       /\ \A i \in 1..Len(storage[k].items) : storage[k].items[i].sku \notin Tokens
  /\ cookie \in Int

\* signed in, and the cart was written since
C24_Witness ==
  /\ token \in Tokens
  /\ user = Profile("a@x")
  /\ storage[EDGE_KEY].kind = "envelope"
  /\ cookie = 0

\* C25: the item list createOrder submits has one wire item per line item
\* of the cart as it was when createOrder was invoked, in cart order, with
\* the same sku and quantity, whatever happens to the cart while the
\* request is in flight.
C25_PayloadFromCart ==
  \A c \in BagToSet(calls) :
    (c.op = "createOrder" /\ c.pc \in {"fetch", "op"}) =>
      /\ Len(c.payload) = Len(c.seen)
      /\ \A i \in 1..Len(c.seen) :
           /\ c.payload[i].sku = c.seen[i].sku
           /\ c.payload[i].quantity = c.seen[i].quantity

\* an edge order request is in flight for a cart of two units of A, and
\* the cart has been changed since
C25_Witness ==
  \E c \in BagToSet(calls) :
    /\ c.op = "createOrder"
    /\ c.pc = "fetch"
    /\ Len(c.payload) = 1
    /\ c.payload[1].quantity = 2
    /\ Values(items, heap) # c.seen

\* C26: when a cart-updated event of the facade is dispatched and
\* delivered, its detail.cart (items, itemCount, subtotal, shipping) is what
\* the active adapter's getCart() returns at that moment.
C26_DetailIsCurrentCart ==
  \A i \in 1..Len(log) :
    (log[i].name = CART_UPDATED /\ log[i].detail.hasCart /\ Kind # "") =>
      log[i].detail.cart = View(BuildCart(Kind, items, heap), heap)

\* C27: through the facade, every successful verifyCode and every logout
\* dispatches exactly one event named commerce:auth-state-changed, the name
\* the 401 teardown uses, with {loggedIn: true, email} and {loggedIn:
\* false, email: null} and no reason.
C27_OneAuthEventName ==
  /\ (reply.op = "verifyCode" /\ reply.outcome = "resolved") =>
       \E e \in Emails :
         Dispatches(log) = <<[name |-> AUTH_EVENT, to |-> 0, detail |-> AuthDetail(TRUE, e)]>>
  /\ (reply.op = "logout" /\ reply.outcome = "resolved") =>
       Dispatches(log) = <<[name |-> AUTH_EVENT, to |-> 0, detail |-> AuthDetail(FALSE, "null")]>>

\* C28: once the first import of the page has rejected, `loading` keeps the
\* rejected promise and no adapter is ever set, no second import is made,
\* every facade call waits on that promise and none resolves, whatever the
\* override is changed to afterwards, until the page is reloaded.
C28_FailedLoadIsPermanent ==
  /\ []((\E i \in 1..Len(imports) : imports[i].state = "rejected") =>
         /\ Len(imports) = 1
         /\ loading = 1
         /\ adapter = NoAdapter
         /\ \A c \in BagToSet(calls) : c.pc = "load" /\ c.inst = 0 /\ c.wait = 1
         /\ done.outcome # "resolved")
  /\ [][(Len(imports) = 1 /\ imports[1].state = "rejected") =>
          \/ imports' = imports /\ loading' = loading /\ adapter' = adapter
          \/ Reload]_vars

\* the import of a bogus adapter has rejected, the override has been
\* corrected since, a facade call has rejected and another one is waiting
C28_Witness ==
  /\ Len(imports) = 1
  /\ imports[1].state = "rejected"
  /\ override \in {"", "mock"}
  /\ done.outcome = "rejected"
  /\ calls # EmptyBag

\* C29: with the edge adapter, the cart_items_count cookie (no cookie
\* reading as 0) is the total item count of the envelope stored under the
\* cart key, 0 when none is stored.
C29_CookieIsEnvelopeCount ==
  Kind = "edge" =>
    (IF cookie < 0 THEN 0 ELSE cookie) =
      (IF storage[EDGE_KEY].kind = "envelope" THEN Count(storage[EDGE_KEY].items) ELSE 0)

\* C30: whenever isLoggedIn() is true, getCustomer() returns a profile
\* with an email: a stored token never outlives the stored profile.
C30_TokenImpliesProfile ==
  IsLoggedIn(token) => GetCustomerEmail(user) # ""

====
